---- MODULE Spec2Model ----
(***************************************************************************)
(* Model of lsst.verify's job metadata container (Metadata, jobmetadata.py) *)
(* bound to a MeasurementSet (measurementset.py).                           *)
(*                                                                         *)
(* Strings are sequences of one-character strings, so that the prefix      *)
(* regular expression, rstrip and startswith are computed character by     *)
(* character.  Dicts are functions; a dict that is shared by reference     *)
(* (a measurement's notes._data inside the ChainMap) is named by the       *)
(* object that owns it.                                                    *)
(***************************************************************************)
EXTENDS Naturals, Sequences, FiniteSets, TLC

VARIABLES
    data,      \* Metadata._data: the general store
    notes,     \* for each Measurement object, its notes._data
    items,     \* MeasurementSet._items, in insertion order
    cached,    \* Metadata._cached_prefixes
    chain,     \* Metadata._chain.maps after the first map (which is _data)
    last,      \* the last call made and its outcome
    other,     \* a second Metadata object (operand of == and !=)
    pfx,       \* a call of Metadata._get_prefix: its key and what it returned
    run        \* a run of dispatch_verify.py's main: its options and how far it got

vars == <<data, notes, items, cached, chain, last, other, pfx, run>>

----------------------------------------------------------------------------
(* Bounds *)

\* longest key handed to _get_prefix on its own
MaxKeyLen == 7
\* most entries held by the general store and all annotation stores together
MaxEntries == 2
\* the values stored: two that differ
Vals == {1, 2}

----------------------------------------------------------------------------
(* Strings *)

Alphabet == {"a", ".", " "}

RECURSIVE StringsOfLen(_)
StringsOfLen(n) ==
    IF n = 0 THEN {<<>>}
    ELSE {Append(s, c) : s \in StringsOfLen(n - 1), c \in Alphabet}

KeyStrings == UNION {StringsOfLen(n) : n \in 0..MaxKeyLen}

\* str.startswith
startswith(s, p) ==
    /\ Len(p) <= Len(s)
    /\ SubSeq(s, 1, Len(p)) = p

\* str.rstrip('.')
RECURSIVE rstrip(_)
rstrip(s) ==
    IF s # <<>> /\ s[Len(s)] = "."
    THEN rstrip(SubSeq(s, 1, Len(s) - 1))
    ELSE s

\* the regular expression class \S
NonSpace(c) == c # " "

\* re.match found nothing
None == <<>>

\* The ways '^(\S+\.\S+)\.' can be laid over the start of key: the first \S+
\* is key[1..i], the first literal dot key[i+1], the second \S+ is
\* key[i+2..j] and the closing literal dot key[j+1].  A dot is itself \S.
PrefixSplits(key) ==
    {ij \in (1..Len(key)) \X (1..Len(key)) :
        /\ ij[1] + 2 <= ij[2]
        /\ ij[2] + 1 <= Len(key)
        /\ key[ij[1] + 1] = "."
        /\ key[ij[2] + 1] = "."
        /\ \A n \in 1..(ij[2] + 1) : NonSpace(key[n])}

\* the largest number of a non-empty set of numbers
Max(S) == CHOOSE a \in S : \A b \in S : b <= a

\* Metadata._get_prefix: match.group(0) of the backtracking match.  Both \S+
\* are greedy: the first takes the longest run that still lets the rest
\* match, then the second does.
_get_prefix(key) ==
    LET splits == PrefixSplits(key)
    IN IF splits = {} THEN None
       ELSE LET i == Max({ij[1] : ij \in splits})
                j == Max({ij[2] : ij \in {s \in splits : s[1] = i}})
            IN SubSeq(key, 1, j + 1)

----------------------------------------------------------------------------
(* Dicts *)

EmptyDict == [k \in {} |-> 0]

DictSet(d, k, v) == [x \in (DOMAIN d) \cup {k} |-> IF x = k THEN v ELSE d[x]]

DictDel(d, k) == [x \in (DOMAIN d) \ {k} |-> d[x]]

----------------------------------------------------------------------------
(* Name, Measurement and MeasurementNotes *)

\* a metric-qualified name has two dotted components
IsMetricString(s) ==
    /\ Cardinality({n \in 1..Len(s) : s[n] = "."}) = 1
    /\ Len(s) >= 3
    /\ s[1] # "."
    /\ s[Len(s)] # "."

\* Name(metric=s)
Name(s) == [fqn |-> s, is_metric |-> IsMetricString(s)]

\* str(name)
str(name) == name.fqn

M_pm == <<"p", ".", "m">>
M_pn == <<"p", ".", "n">>

\* The Measurement objects that exist; o1 and o2 measure the same metric.
Objs == {"o1", "o2", "o3"}

\* a value that is not a Measurement
NotAMeasurement == "junk"

\* isinstance(value, Measurement)
IsMeasurement(value) == value \in Objs

\* Measurement.metric_name
metric_name(o) == IF o = "o3" THEN Name(M_pn) ELSE Name(M_pm)

\* MeasurementNotes._format_key: the key with the metric name prefixed,
\* unless it already starts with it
_format_key(o, key) ==
    LET prefix == str(metric_name(o)) \o <<".">>
    IN IF startswith(key, prefix) THEN key ELSE prefix \o key

\* MeasurementNotes.__setitem__ on the notes of o
notes_setitem(nts, o, key, value) ==
    [nts EXCEPT ![o] = DictSet(@, _format_key(o, key), value)]

\* MeasurementNotes.__delitem__ on the notes of o: raises KeyError when the
\* formatted key is not there
notes_delitem(nts, o, key) ==
    IF _format_key(o, key) \in DOMAIN nts[o]
    THEN [raised |-> FALSE, notes |-> [nts EXCEPT ![o] = DictDel(@, _format_key(o, key))]]
    ELSE [raised |-> TRUE, notes |-> nts]

----------------------------------------------------------------------------
(* MeasurementSet: _items is a dict from Name to Measurement, a function on *)
(* the Names that are keys.  Its iteration order is left out: it orders the *)
(* annotation stores in the chain, and no key can be in two of them (each   *)
(* holds only keys that start with its own metric name and a dot).          *)

ms_keys(its) == DOMAIN its

\* MeasurementSet.__contains__
ms_contains(its, key) == Name(key) \in ms_keys(its)

\* MeasurementSet.__getitem__ for a key that is there
ms_getitem(its, key) == its[Name(key)]

\* MeasurementSet.items(), as the sequence of the Measurements it yields
ms_values(its) ==
    SelectSeq(<<"o1", "o2", "o3">>, LAMBDA o : \E name \in DOMAIN its : its[name] = o)

\* __setitem__ without the check of the key against value.metric_name
ms_setitem_nomatch(its, key, value) ==
    IF ~Name(key).is_metric
    THEN [raised |-> TRUE, err |-> "KeyError", items |-> its]
    ELSE IF ~IsMeasurement(value)
    THEN [raised |-> TRUE, err |-> "TypeError", items |-> its]
    ELSE [raised |-> FALSE, err |-> "", items |-> DictSet(its, Name(key), value)]

\* __setitem__ that stores the value before it compares the key with
\* value.metric_name
ms_setitem_storefirst(its, key, value) ==
    IF ~Name(key).is_metric
    THEN [raised |-> TRUE, err |-> "KeyError", items |-> its]
    ELSE IF ~IsMeasurement(value)
    THEN [raised |-> TRUE, err |-> "TypeError", items |-> its]
    ELSE IF Name(key) # metric_name(value)
    THEN [raised |-> TRUE, err |-> "KeyError", items |-> DictSet(its, Name(key), value)]
    ELSE [raised |-> FALSE, err |-> "", items |-> DictSet(its, Name(key), value)]

\* MeasurementSet.__setitem__
ms_setitem(its, key, value) ==
    IF ~Name(key).is_metric
    THEN [raised |-> TRUE, err |-> "KeyError", items |-> its]
    ELSE IF ~IsMeasurement(value)
    THEN [raised |-> TRUE, err |-> "TypeError", items |-> its]
    ELSE IF Name(key) # metric_name(value)
    THEN [raised |-> TRUE, err |-> "KeyError", items |-> its]
    ELSE [raised |-> FALSE, err |-> "", items |-> DictSet(its, Name(key), value)]

\* MeasurementSet.__delitem__
ms_delitem(its, key) ==
    IF Name(key) \in ms_keys(its)
    THEN [raised |-> FALSE, err |-> "", items |-> DictDel(its, Name(key))]
    ELSE [raised |-> TRUE, err |-> "KeyError", items |-> its]

\* MeasurementSet.__init__: each measurement set under its own metric name
RECURSIVE ms_init(_)
ms_init(measurements) ==
    IF measurements = <<>> THEN EmptyDict
    ELSE LET n == Len(measurements)
             m == measurements[n]
         IN ms_setitem(ms_init(SubSeq(measurements, 1, n - 1)),
                       str(metric_name(m)), m).items

----------------------------------------------------------------------------
(* ChainMap: maps is the sequence of the dicts searched, first to last *)

\* ChainMap.__getitem__: the first map that has the key answers
chain_getitem(maps, key) ==
    IF \E i \in DOMAIN maps : key \in DOMAIN maps[i]
    THEN LET i == CHOOSE a \in DOMAIN maps :
                      /\ key \in DOMAIN maps[a]
                      /\ \A b \in DOMAIN maps : key \in DOMAIN maps[b] => a <= b
         IN [raised |-> FALSE, value |-> maps[i][key]]
    ELSE [raised |-> TRUE, value |-> 0]

\* ChainMap.__contains__
chain_contains(maps, key) == \E i \in DOMAIN maps : key \in DOMAIN maps[i]

\* ChainMap.__iter__: every key of every map, once (order left out)
chain_iter(maps) == UNION {DOMAIN maps[i] : i \in DOMAIN maps}

\* ChainMap.__len__
chain_len(maps) == Cardinality(chain_iter(maps))

\* ChainMap.items(): each key with what __getitem__ gives for it
chain_items(maps) == {<<k, chain_getitem(maps, k).value>> : k \in chain_iter(maps)}

----------------------------------------------------------------------------
(* Metadata *)

\* the name of the general store inside the chain
DataRef == "data"

\* the dicts a chain of references stands for
Maps(d, nts, chn) == [i \in DOMAIN chn |-> IF chn[i] = DataRef THEN d ELSE nts[chn[i]]]

\* A mutation of _refresh_chainmap: the rebuilt chain leaves out the general
\* store.
_refresh_chainmap_nodata(cch, chn, its) ==
    LET prefixes == {str(name) : name \in ms_keys(its)}
    IN IF cch # prefixes
       THEN [cached |-> prefixes, chain |-> ms_values(its)]
       ELSE [cached |-> cch, chain |-> chn]

\* A mutation of _refresh_chainmap: the general store is appended after the
\* measurements' notes instead of being the first map.
_refresh_chainmap_datalast(cch, chn, its) ==
    LET prefixes == {str(name) : name \in ms_keys(its)}
    IN IF cch # prefixes
       THEN [cached |-> prefixes,
             chain |-> ms_values(its) \o <<DataRef>>]
       ELSE [cached |-> cch, chain |-> chn]

\* A mutation of _refresh_chainmap: the cached and the current metric names
\* are compared by their number only.
_refresh_chainmap_bysize(cch, chn, its) ==
    LET prefixes == {str(name) : name \in ms_keys(its)}
    IN IF Cardinality(cch) # Cardinality(prefixes)
       THEN [cached |-> prefixes,
             chain |-> <<DataRef>> \o ms_values(its)]
       ELSE [cached |-> cch, chain |-> chn]

\* Metadata._refresh_chainmap
_refresh_chainmap(cch, chn, its) ==
    LET prefixes == {str(name) : name \in ms_keys(its)}
    IN IF cch # prefixes
       THEN [cached |-> prefixes,
             chain |-> <<DataRef>> \o ms_values(its)]
       ELSE [cached |-> cch, chain |-> chn]

\* the maps of the chain after _refresh_chainmap
Refreshed(d, nts, its, cch, chn) == Maps(d, nts, _refresh_chainmap(cch, chn, its).chain)

\* Metadata.__getitem__
Metadata_getitem(d, nts, its, cch, chn, key) == chain_getitem(Refreshed(d, nts, its, cch, chn), key)

\* Metadata.__contains__
Metadata_contains(d, nts, its, cch, chn, key) == chain_contains(Refreshed(d, nts, its, cch, chn), key)

\* Metadata.__len__
Metadata_len(d, nts, its, cch, chn) == chain_len(Refreshed(d, nts, its, cch, chn))

\* Metadata.__iter__ and Metadata.keys
Metadata_iter(d, nts, its, cch, chn) == chain_iter(Refreshed(d, nts, its, cch, chn))

\* Metadata.items
Metadata_items(d, nts, its, cch, chn) == chain_items(Refreshed(d, nts, its, cch, chn))

\* Metadata.json: jsonify_dict of the chain, a plain dict of its items
Metadata_json(d, nts, its, cch, chn) ==
    LET maps == Refreshed(d, nts, its, cch, chn)
    IN [k \in chain_iter(maps) |-> chain_getitem(maps, k).value]

\* The store Metadata.__setitem__ writes: the Measurement whose metric name
\* is the key's prefix without its dots when that name is in the set, the
\* general store otherwise
SetRoute(its, key) ==
    LET prefix == _get_prefix(key)
    IN IF prefix = None THEN DataRef
       ELSE LET metric == rstrip(prefix)
            IN IF ms_contains(its, metric) THEN ms_getitem(its, metric) ELSE DataRef

\* A mutation of __setitem__: without the return after the write to the
\* measurement's notes, the value is written to the general store as well.
Metadata_setitem_noreturn(d, nts, its, key, value) ==
    LET to == SetRoute(its, key)
    IN IF to # DataRef
       THEN [raised |-> FALSE, data |-> DictSet(d, key, value),
             notes |-> notes_setitem(nts, to, key, value)]
       ELSE [raised |-> FALSE, data |-> DictSet(d, key, value), notes |-> nts]

\* Metadata.__setitem__
Metadata_setitem(d, nts, its, key, value) ==
    LET to == SetRoute(its, key)
    IN IF to # DataRef
       THEN [raised |-> FALSE, data |-> d, notes |-> notes_setitem(nts, to, key, value)]
       ELSE [raised |-> FALSE, data |-> DictSet(d, key, value), notes |-> nts]

\* A mutation of DelRoute: the prefix keeps its trailing dot when it is
\* looked up in the MeasurementSet.
DelRoute_nostrip(its, key) ==
    LET prefix == _get_prefix(key)
    IN IF prefix = None THEN DataRef
       ELSE IF ms_contains(its, prefix) THEN ms_getitem(its, prefix) ELSE DataRef

\* The store Metadata.__delitem__ deletes from
DelRoute(its, key) ==
    LET prefix == _get_prefix(key)
    IN IF prefix = None THEN DataRef
       ELSE LET metric == rstrip(prefix)
            IN IF ms_contains(its, metric) THEN ms_getitem(its, metric) ELSE DataRef

\* A mutation of Metadata_delitem: when the measurement's notes do not have
\* the key, the key is also dropped from the general store before the
\* KeyError goes up.
Metadata_delitem_fallthrough(d, nts, its, key) ==
    LET from == DelRoute(its, key)
    IN IF from # DataRef
       THEN LET r == notes_delitem(nts, from, key)
            IN [raised |-> r.raised,
                data |-> IF r.raised THEN DictDel(d, key) ELSE d,
                notes |-> r.notes]
       ELSE IF key \in DOMAIN d
       THEN [raised |-> FALSE, data |-> DictDel(d, key), notes |-> nts]
       ELSE [raised |-> TRUE, data |-> d, notes |-> nts]

\* Metadata.__delitem__
Metadata_delitem(d, nts, its, key) ==
    LET from == DelRoute(its, key)
    IN IF from # DataRef
       THEN LET r == notes_delitem(nts, from, key)
            IN [raised |-> r.raised, data |-> d, notes |-> r.notes]
       ELSE IF key \in DOMAIN d
       THEN [raised |-> FALSE, data |-> DictDel(d, key), notes |-> nts]
       ELSE [raised |-> TRUE, data |-> d, notes |-> nts]

\* A mutation of Metadata_eq: the comparison of the lengths is left out.
Metadata_eq_nolen(d, nts, its, cch, chn, o) ==
    LET mine == Refreshed(d, nts, its, cch, chn)
        theirs == Refreshed(o.data, nts, o.items, o.cached, o.chain)
    IN \A item \in chain_items(theirs) :
           /\ chain_contains(mine, item[1])
           /\ item[2] = chain_getitem(mine, item[1]).value

\* Metadata.__eq__ with the Metadata o, which is bound to its own
\* MeasurementSet: len() and items() refresh both chains first
Metadata_eq(d, nts, its, cch, chn, o) ==
    LET mine == Refreshed(d, nts, its, cch, chn)
        theirs == Refreshed(o.data, nts, o.items, o.cached, o.chain)
    IN IF chain_len(mine) # chain_len(theirs)
       THEN FALSE
       ELSE \A item \in chain_items(theirs) :
                /\ chain_contains(mine, item[1])
                /\ item[2] = chain_getitem(mine, item[1]).value

\* Metadata.__ne__
Metadata_ne(d, nts, its, cch, chn, o) == ~Metadata_eq(d, nts, its, cch, chn, o)

----------------------------------------------------------------------------
(* The state machine: one Metadata bound to one MeasurementSet *)

K_k == <<"k">>
K_pm_k == <<"p", ".", "m", ".", "k">>
K_pm_k_x == <<"p", ".", "m", ".", "k", ".", "x">>
K_pn_k == <<"p", ".", "n", ".", "k">>

\* the keys used with the Metadata
Keys == {K_k, K_pm_k, K_pm_k_x, K_pn_k}

\* the keys used with a measurement's notes directly
NoteKeys == {<<"k">>}

\* the (key, value) pairs set in the MeasurementSet: three that are
\* consistent, a key that is no metric name, a value that is no Measurement
\* and a key that is not the measurement's metric name
SetInputs == {<<M_pm, "o1">>, <<M_pm, "o2">>, <<M_pn, "o3">>,
              <<K_k, "o1">>, <<M_pm, NotAMeasurement>>, <<M_pn, "o1">>,
              <<K_k, NotAMeasurement>>}

\* the keys deleted from the MeasurementSet
DelKeys == {M_pm, M_pn}

\* the lists of measurements the MeasurementSet is constructed from
InitialMeasurements == {<<>>, <<"o1">>, <<"o1", "o3">>}

TotalEntries(d, nts) ==
    Cardinality(DOMAIN d) + Cardinality(DOMAIN nts["o1"])
        + Cardinality(DOMAIN nts["o2"]) + Cardinality(DOMAIN nts["o3"])

Call(op, key, value, raised, result) ==
    [op |-> op, key |-> key, value |-> value, raised |-> raised, result |-> result]

ReadOps == {"get", "contains", "len", "iter", "items", "json"}

OtherIdle == [data |-> EmptyDict, items |-> EmptyDict, cached |-> {}, chain |-> <<DataRef>>]

PfxIdle == [key |-> <<>>, done |-> FALSE, prefix |-> None, metric |-> <<>>]

\* no run of dispatch_verify.py
RunIdle == [pc |-> "idle"]

\* Metadata.__init__ over a MeasurementSet built from a list of measurements
Init ==
    /\ data = EmptyDict
    /\ notes = [o \in Objs |-> EmptyDict]
    /\ items \in {ms_init(l) : l \in InitialMeasurements}
    /\ cached = _refresh_chainmap({}, <<DataRef>>, items).cached
    /\ chain = _refresh_chainmap({}, <<DataRef>>, items).chain
    /\ last = Call("init", <<>>, 0, FALSE, 0)
    /\ other = OtherIdle
    /\ pfx = PfxIdle
    /\ run = RunIdle

\* A mutation of meta[key] = value: the chain is refreshed on the write.
MetaSet_refreshing(key, value) ==
    LET r == Metadata_setitem(data, notes, items, key, value)
    IN /\ TotalEntries(r.data, r.notes) <= MaxEntries
       /\ data' = r.data
       /\ notes' = r.notes
       /\ cached' = _refresh_chainmap(cached, chain, items).cached
       /\ chain' = _refresh_chainmap(cached, chain, items).chain
       /\ last' = Call("set", key, value, r.raised, 0)
       /\ UNCHANGED <<items, other, pfx, run>>

\* meta[key] = value
MetaSet(key, value) ==
    LET r == Metadata_setitem(data, notes, items, key, value)
    IN /\ TotalEntries(r.data, r.notes) <= MaxEntries
       /\ data' = r.data
       /\ notes' = r.notes
       /\ last' = Call("set", key, value, r.raised, 0)
       /\ UNCHANGED <<items, cached, chain, other, pfx, run>>

\* del meta[key]
MetaDel(key) ==
    LET r == Metadata_delitem(data, notes, items, key)
    IN /\ data' = r.data
       /\ notes' = r.notes
       /\ last' = Call("del", key, 0, r.raised, 0)
       /\ UNCHANGED <<items, cached, chain, other, pfx, run>>

\* what every read does first
Refresh ==
    /\ cached' = _refresh_chainmap(cached, chain, items).cached
    /\ chain' = _refresh_chainmap(cached, chain, items).chain
    /\ UNCHANGED <<data, notes, items, other, pfx, run>>

\* A mutation of meta[key]: a key that no layer holds is entered into the
\* general store with a default value, as a defaultdict would do.
MetaGet_inserting(key) ==
    LET r == Metadata_getitem(data, notes, items, cached, chain, key)
    IN /\ cached' = _refresh_chainmap(cached, chain, items).cached
       /\ chain' = _refresh_chainmap(cached, chain, items).chain
       /\ data' = IF r.raised THEN DictSet(data, key, 1) ELSE data
       /\ last' = Call("get", key, 0, FALSE, IF r.raised THEN 1 ELSE r.value)
       /\ UNCHANGED <<notes, items, other, pfx, run>>

\* meta[key]
MetaGet(key) ==
    LET r == Metadata_getitem(data, notes, items, cached, chain, key)
    IN /\ Refresh
       /\ last' = Call("get", key, 0, r.raised, r.value)

\* key in meta
MetaContains(key) ==
    /\ Refresh
    /\ last' = Call("contains", key, 0, FALSE,
                    Metadata_contains(data, notes, items, cached, chain, key))

\* len(meta)
MetaLen ==
    /\ Refresh
    /\ last' = Call("len", <<>>, 0, FALSE, Metadata_len(data, notes, items, cached, chain))

\* meta.keys(), iter(meta)
MetaIter ==
    /\ Refresh
    /\ last' = Call("iter", <<>>, 0, FALSE, Metadata_iter(data, notes, items, cached, chain))

\* meta.items()
MetaItems ==
    /\ Refresh
    /\ last' = Call("items", <<>>, 0, FALSE, Metadata_items(data, notes, items, cached, chain))

\* meta.json
MetaJson ==
    /\ Refresh
    /\ last' = Call("json", <<>>, 0, FALSE, Metadata_json(data, notes, items, cached, chain))

\* measurement_set[key] = value
MSSetItem(key, value) ==
    LET r == ms_setitem(items, key, value)
    IN /\ items' = r.items
       /\ last' = Call("ms_set", key, value, r.raised, r.err)
       /\ UNCHANGED <<data, notes, cached, chain, other, pfx, run>>

\* measurement_set.insert(measurement)
MSInsert(o) ==
    LET r == ms_setitem(items, str(metric_name(o)), o)
    IN /\ items' = r.items
       /\ last' = Call("ms_insert", str(metric_name(o)), o, r.raised, r.err)
       /\ UNCHANGED <<data, notes, cached, chain, other, pfx, run>>

\* del measurement_set[key]
MSDelItem(key) ==
    LET r == ms_delitem(items, key)
    IN /\ items' = r.items
       /\ last' = Call("ms_del", key, 0, r.raised, r.err)
       /\ UNCHANGED <<data, notes, cached, chain, other, pfx, run>>

\* measurement.notes[key] = value, on a measurement in the set or not
NotesSet(o, key, value) ==
    /\ TotalEntries(data, notes_setitem(notes, o, key, value)) <= MaxEntries
    /\ notes' = notes_setitem(notes, o, key, value)
    /\ last' = Call("notes_set", key, value, FALSE, o)
    /\ UNCHANGED <<data, items, cached, chain, other, pfx, run>>

Next ==
    \/ \E key \in Keys, value \in Vals : MetaSet(key, value)
    \/ \E key \in Keys : MetaDel(key)
    \/ \E key \in Keys : MetaGet(key)
    \/ \E key \in Keys : MetaContains(key)
    \/ MetaLen
    \/ MetaIter
    \/ MetaItems
    \/ MetaJson
    \/ \E kv \in SetInputs : MSSetItem(kv[1], kv[2])
    \/ \E o \in Objs : MSInsert(o)
    \/ \E key \in DelKeys : MSDelItem(key)
    \/ \E o \in Objs, key \in NoteKeys, value \in Vals : NotesSet(o, key, value)

Spec == Init /\ [][Next]_vars

----------------------------------------------------------------------------
(* Two Metadata objects compared: the first is bound to a MeasurementSet    *)
(* that holds o1 or nothing, the second to one that holds o2 or nothing;    *)
(* each chain is as built at construction, before or after the measurement  *)
(* was inserted.                                                            *)

DictsOver(S) == UNION {[D -> Vals] : D \in SUBSET S}

EqInit ==
    /\ data \in DictsOver({K_k, K_pm_k})
    /\ notes \in {[o \in Objs |-> IF o = "o1" THEN n1 ELSE IF o = "o2" THEN n2 ELSE EmptyDict] :
                      n1 \in DictsOver({K_pm_k}), n2 \in DictsOver({K_pm_k})}
    /\ items \in {ms_init(<<>>), ms_init(<<"o1">>)}
    /\ \E built \in {ms_init(<<>>), items} :
           /\ cached = _refresh_chainmap({}, <<DataRef>>, built).cached
           /\ chain = _refresh_chainmap({}, <<DataRef>>, built).chain
    /\ other \in {[data |-> d, items |-> its,
                    cached |-> _refresh_chainmap({}, <<DataRef>>, built).cached,
                    chain |-> _refresh_chainmap({}, <<DataRef>>, built).chain] :
                      d \in DictsOver({K_k, K_pm_k}),
                      its \in {ms_init(<<>>), ms_init(<<"o2">>)},
                      built \in {ms_init(<<>>), ms_init(<<"o2">>)}}
    /\ other.cached # {} => other.items # EmptyDict
    /\ last = Call("init", <<>>, 0, FALSE, 0)
    /\ pfx = PfxIdle
    /\ run = RunIdle

\* what len() and items() do first, in both objects
RefreshBoth ==
    /\ cached' = _refresh_chainmap(cached, chain, items).cached
    /\ chain' = _refresh_chainmap(cached, chain, items).chain
    /\ other' = [other EXCEPT
                    !.cached = _refresh_chainmap(other.cached, other.chain, other.items).cached,
                    !.chain = _refresh_chainmap(other.cached, other.chain, other.items).chain]
    /\ UNCHANGED <<data, notes, items, pfx, run>>

\* meta == other
MetaEq ==
    /\ RefreshBoth
    /\ last' = Call("eq", <<>>, 0, FALSE, Metadata_eq(data, notes, items, cached, chain, other))

\* meta != other
MetaNe ==
    /\ RefreshBoth
    /\ last' = Call("ne", <<>>, 0, FALSE, Metadata_ne(data, notes, items, cached, chain, other))

EqNext ==
    \/ MetaEq
    \/ MetaNe

SpecEq == EqInit /\ [][EqNext]_vars

----------------------------------------------------------------------------
(* The operations of Spec together with == and != against a second, empty   *)
(* Metadata object                                                          *)

ReadsNext ==
    \/ Next
    \/ MetaEq
    \/ MetaNe

SpecReads == Init /\ [][ReadsNext]_vars

----------------------------------------------------------------------------
(* Metadata._get_prefix called on a key, and the metric name its caller    *)
(* makes of the prefix                                                      *)

PfxInit ==
    /\ data = EmptyDict
    /\ notes = [o \in Objs |-> EmptyDict]
    /\ items = EmptyDict
    /\ cached = {}
    /\ chain = <<DataRef>>
    /\ last = Call("init", <<>>, 0, FALSE, 0)
    /\ other = OtherIdle
    /\ pfx \in {[key |-> k, done |-> FALSE, prefix |-> None, metric |-> <<>>] : k \in KeyStrings}
    /\ run = RunIdle

PfxCall ==
    /\ ~pfx.done
    /\ pfx' = [key |-> pfx.key, done |-> TRUE, prefix |-> _get_prefix(pfx.key),
               metric |-> IF _get_prefix(pfx.key) = None THEN <<>>
                          ELSE rstrip(_get_prefix(pfx.key))]
    /\ UNCHANGED <<data, notes, items, cached, chain, last, other, run>>

PfxNext == PfxCall

SpecPrefix == PfxInit /\ [][PfxNext]_vars

----------------------------------------------------------------------------
(* dispatch_verify.py: main(), from the parsed command line and the         *)
(* environment to the end of the run.  Calls into Job (deserialize, +=,     *)
(* reload_metrics_package, write) and the insert_* helpers are taken to     *)
(* return; reading a JSON file and job.dispatch may raise.                  *)

\* the number of JSON files named on the command line (nargs='+')
MaxJsonPaths == 2

\* What parse_args and the environment hand to Configuration.  A flag is a
\* boolean; env_name, lsstsw and extra_package_paths are None ("none") or
\* one of the values that the code tells apart; api_user and api_password
\* are TRUE when the option or its environment variable gives one.
Args ==
    [test : BOOLEAN, show_json : BOOLEAN, output_filepath : {"none", "path"},
     env_name : {"none", "jenkins", "other"},
     ignore_lsstsw : BOOLEAN, lsstsw : {"none", "dir", "missing"},
     extra_package_paths : {"none", "dirs", "missing"},
     api_user : BOOLEAN, api_password : BOOLEAN,
     json_paths : 1..MaxJsonPaths]

allowed_env == {"jenkins"}

\* Configuration.__init__: the error it raises, "" when it returns
Configuration(args) ==
    IF args.env_name # "none" /\ args.env_name \notin allowed_env
    THEN "RuntimeError"
    ELSE IF ~args.ignore_lsstsw /\ args.lsstsw = "none"
    THEN "TypeError"
    ELSE IF ~args.ignore_lsstsw /\ args.lsstsw = "missing"
    THEN "RuntimeError"
    ELSE IF args.extra_package_paths = "missing"
    THEN "RuntimeError"
    ELSE IF ~args.test /\ ~args.api_user
    THEN "RuntimeError"
    ELSE IF ~args.test /\ ~args.api_password
    THEN "RuntimeError"
    ELSE ""

\* main() entered with the arguments args
RunStart(args) ==
    [pc |-> "config", config |-> args, err |-> "",
     jobs |-> 0, merged |-> 0, reloaded |-> FALSE,
     lsstsw_meta |-> FALSE, packages_meta |-> FALSE, jenkins_meta |-> FALSE,
     dispatched |-> 0, printed |-> 0, written |-> 0]

DispatchInit ==
    /\ data = EmptyDict
    /\ notes = [o \in Objs |-> EmptyDict]
    /\ items = EmptyDict
    /\ cached = {}
    /\ chain = <<DataRef>>
    /\ last = Call("init", <<>>, 0, FALSE, 0)
    /\ other = OtherIdle
    /\ pfx = PfxIdle
    /\ run \in {RunStart(args) : args \in Args}

MetadataIdle == UNCHANGED <<data, notes, items, cached, chain, last, other, pfx>>

\* config = Configuration(args)
MainConfiguration ==
    /\ run.pc = "config"
    /\ run' = IF Configuration(run.config) = ""
              THEN [run EXCEPT !.pc = "load"]
              ELSE [run EXCEPT !.pc = "raised", !.err = Configuration(run.config)]
    /\ MetadataIdle

\* one turn of the loop over config.json_paths, and after the last one
\* job = jobs.pop(0)
MainLoad ==
    /\ run.pc = "load"
    /\ \E readable \in BOOLEAN :
          run' = IF ~readable
                 THEN [run EXCEPT !.pc = "raised", !.err = "IOError"]
                 ELSE [run EXCEPT !.jobs = @ + 1,
                                  !.pc = IF run.jobs + 1 = run.config.json_paths
                                         THEN "merge" ELSE "load"]
    /\ MetadataIdle

\* for other_job in jobs: job += other_job
MainMerge ==
    /\ run.pc = "merge"
    /\ run' = [run EXCEPT !.merged = run.jobs - 1, !.pc = "reload"]
    /\ MetadataIdle

\* job.reload_metrics_package('verify_metrics')
MainReload ==
    /\ run.pc = "reload"
    /\ run' = [run EXCEPT !.reloaded = TRUE, !.pc = "lsstsw"]
    /\ MetadataIdle

\* if not config.ignore_lsstsw: insert_lsstsw_metadata
MainLsstsw ==
    /\ run.pc = "lsstsw"
    /\ run' = IF ~run.config.ignore_lsstsw
              THEN [run EXCEPT !.lsstsw_meta = TRUE, !.pc = "packages"]
              ELSE [run EXCEPT !.pc = "packages"]
    /\ MetadataIdle

\* if config.extra_package_paths is not None: insert_extra_package_metadata.
\* Configuration makes extra_package_paths a list, never None.
MainPackages ==
    /\ run.pc = "packages"
    /\ run' = [run EXCEPT !.packages_meta = TRUE, !.pc = "jenkins"]
    /\ MetadataIdle

\* if config.env_name == 'jenkins': insert_jenkins_metadata
MainJenkins ==
    /\ run.pc = "jenkins"
    /\ run' = IF run.config.env_name = "jenkins"
              THEN [run EXCEPT !.jenkins_meta = TRUE, !.pc = "upload"]
              ELSE [run EXCEPT !.pc = "upload"]
    /\ MetadataIdle

\* A mutation of the upload step: the job is dispatched whether or not
\* config.test is set.
MainUpload_untested ==
    /\ run.pc = "upload"
    /\ \E accepted \in BOOLEAN :
          run' = IF accepted
                 THEN [run EXCEPT !.dispatched = @ + 1, !.pc = "show"]
                 ELSE [run EXCEPT !.dispatched = @ + 1, !.pc = "raised",
                                  !.err = "Exception"]
    /\ MetadataIdle

\* if not config.test: job.dispatch(...)
MainUpload ==
    /\ run.pc = "upload"
    /\ \E accepted \in BOOLEAN :
          run' = IF run.config.test
                 THEN [run EXCEPT !.pc = "show"]
                 ELSE IF accepted
                 THEN [run EXCEPT !.dispatched = @ + 1, !.pc = "show"]
                 ELSE [run EXCEPT !.dispatched = @ + 1, !.pc = "raised",
                                  !.err = "Exception"]
    /\ MetadataIdle

\* if config.show_json: print(json.dumps(job.json, ...))
MainShow ==
    /\ run.pc = "show"
    /\ run' = IF run.config.show_json
              THEN [run EXCEPT !.printed = @ + 1, !.pc = "write"]
              ELSE [run EXCEPT !.pc = "write"]
    /\ MetadataIdle

\* if config.output_filepath is not None: job.write(config.output_filepath)
MainWrite ==
    /\ run.pc = "write"
    /\ run' = IF run.config.output_filepath # "none"
              THEN [run EXCEPT !.written = @ + 1, !.pc = "done"]
              ELSE [run EXCEPT !.pc = "done"]
    /\ MetadataIdle

DispatchNext ==
    \/ MainConfiguration
    \/ MainLoad
    \/ MainMerge
    \/ MainReload
    \/ MainLsstsw
    \/ MainPackages
    \/ MainJenkins
    \/ MainUpload
    \/ MainShow
    \/ MainWrite

SpecDispatch == DispatchInit /\ [][DispatchNext]_vars

----------------------------------------------------------------------------
(* Properties *)

\* what the next Metadata read gives, from the state as it is
NextGet(key) == Metadata_getitem(data, notes, items, cached, chain, key)
NextContains(key) == Metadata_contains(data, notes, items, cached, chain, key)
NextIter == Metadata_iter(data, notes, items, cached, chain)
NextLen == Metadata_len(data, notes, items, cached, chain)

\* the Measurements in the bound MeasurementSet
Members == {items[name] : name \in DOMAIN items}

\* The first two dot-delimited components of key and the dot after them,
\* when key starts with two components that are not empty and are followed
\* by a dot; None otherwise.
TwoComponentPrefix(key) ==
    LET dots == {n \in 1..Len(key) : key[n] = "."}
    IN IF Cardinality(dots) < 2 THEN None
       ELSE LET d1 == CHOOSE a \in dots : \A b \in dots : a <= b
                d2 == CHOOSE a \in dots \ {d1} : \A b \in dots \ {d1} : a <= b
            IN IF d1 > 1 /\ d2 > d1 + 1 THEN SubSeq(key, 1, d2) ELSE None

\* the Measurements in the set whose metric name, with a dot, starts key
MetricOf(key) ==
    {items[name] : name \in {n \in DOMAIN items : startswith(key, str(n) \o <<".">>)}}

\* C1: after set(K, V) of a key K that does not have the two-component
\* prefix, whatever the MeasurementSet holds, the general store has V under
\* K and the get(K) that follows returns V.
C1_PlainKeySetThenGet ==
    (last.op = "set" /\ TwoComponentPrefix(last.key) = None) =>
        /\ ~last.raised
        /\ last.key \in DOMAIN data
        /\ data[last.key] = last.value
        /\ NextGet(last.key) = [raised |-> FALSE, value |-> last.value]

\* a plain key was set while the MeasurementSet held a measurement with notes
C1_Witness ==
    /\ last.op = "set"
    /\ last.key = K_k
    /\ \E o \in Members : DOMAIN notes[o] # {}

\* C2: after set(key, V) of a key "<metric>.<local>" whose metric names a
\* Measurement in the set, that Measurement's annotation store has V under
\* the full key and the general store does not have the key.
C2_RoutedSetNotInGeneralStore ==
    (last.op = "set" /\ MetricOf(last.key) # {}) =>
        \A o \in MetricOf(last.key) :
            /\ last.key \in DOMAIN notes[o]
            /\ notes[o][last.key] = last.value
            /\ last.key \notin DOMAIN data

\* C3: after set(key, V) of a key "<metric>.<local>" whose metric names a
\* Measurement in the set, the get(key) that follows returns V.
C3_RoutedSetThenGet ==
    (last.op = "set" /\ MetricOf(last.key) # {}) =>
        NextGet(last.key) = [raised |-> FALSE, value |-> last.value]

\* C4: once a Measurement has been added to the set, every entry of its
\* annotation store is seen by the next read: contains, iteration and get.
C4_AddedMeasurementVisible ==
    (last.op \in {"ms_insert", "ms_set"} /\ ~last.raised) =>
        \A k \in DOMAIN notes[last.value] :
            /\ NextContains(k)
            /\ k \in NextIter
            /\ ~NextGet(k).raised

\* C5: the next read shows no annotation of a Measurement that is not in
\* the set (one removed by delete or overwritten), unless the general store
\* or a Measurement in the set has the same key.
C5_RemovedMeasurementHidden ==
    \A o \in Objs \ Members : \A k \in DOMAIN notes[o] :
        (k \notin DOMAIN data /\ \A m \in Members : k \notin DOMAIN notes[m])
            => ~NextContains(k)

\* the sum of the sizes of the annotation stores of the Measurements in ms
RECURSIVE NotesSize(_)
NotesSize(ms) ==
    IF ms = {} THEN 0
    ELSE LET m == CHOOSE x \in ms : TRUE
         IN Cardinality(DOMAIN notes[m]) + NotesSize(ms \ {m})

\* C6: length() is the number of keys of the general store plus the sizes
\* of the annotation stores of the Measurements in the set.
C6_LengthIsSumOfStores ==
    NextLen = Cardinality(DOMAIN data) + NotesSize(Members)

\* C7: _get_prefix gives the first two dot-delimited components and the dot
\* after them when the key (without whitespace) starts with two components
\* followed by a dot, the metric name being those two components, and no
\* match when the key has fewer than two dots.
C7_PrefixIsFirstTwoComponents ==
    (pfx.done /\ \A n \in 1..Len(pfx.key) : NonSpace(pfx.key[n])) =>
        /\ TwoComponentPrefix(pfx.key) # None =>
               /\ pfx.prefix = TwoComponentPrefix(pfx.key)
               /\ pfx.metric = SubSeq(pfx.prefix, 1, Len(pfx.prefix) - 1)
        /\ Cardinality({n \in 1..Len(pfx.key) : pfx.key[n] = "."}) < 2 =>
               pfx.prefix = None

\* C8 as stated: delete(key) raises whenever the key's prefix resolves to a
\* measurement that is not in the set, or the key is not in the general
\* store.
C8_DeleteRaisesAsStated ==
    [][(last'.op = "del") =>
          (((_get_prefix(last'.key) # None
                /\ ~ms_contains(items, rstrip(_get_prefix(last'.key))))
             \/ last'.key \notin DOMAIN data)
           => last'.raised)]_vars

\* C8, amended: delete(key) goes to the store set(key, .) goes to and raises
\* exactly when that store does not have the key; it removes the key from
\* that store alone otherwise; a key that no store has raises.
C8_DeleteRouting ==
    [][(last'.op = "del") =>
          LET key == last'.key
              to == SetRoute(items, key)
          IN /\ to = DataRef =>
                   /\ last'.raised <=> key \notin DOMAIN data
                   /\ ~last'.raised => (data' = DictDel(data, key) /\ notes' = notes)
             /\ to # DataRef =>
                   /\ last'.raised <=> key \notin DOMAIN notes[to]
                   /\ ~last'.raised =>
                          /\ data' = data
                          /\ notes' = [notes EXCEPT ![to] = DictDel(@, key)]
             /\ (key \notin DOMAIN data /\ \A o \in Objs : key \notin DOMAIN notes[o])
                   => last'.raised]_vars

\* a delete went to the annotation store of a measurement in the set, which
\* had the key, while the general store had it too
C8_Witness ==
    /\ last.op = "del"
    /\ ~last.raised
    /\ SetRoute(items, last.key) # DataRef
    /\ last.key \in DOMAIN data

\* C9: a set or a delete that raises leaves the general store, every
\* annotation store, the MeasurementSet and the cached view as they were.
C9_FailedCallChangesNothing ==
    [][(last'.op \in {"set", "del"} /\ last'.raised) =>
          UNCHANGED <<data, notes, items, cached, chain>>]_vars

\* a delete raised for a key that a measurement in the set should hold,
\* while the general store had that key
C9_Witness ==
    /\ last.op = "del"
    /\ last.raised
    /\ SetRoute(items, last.key) # DataRef
    /\ last.key \in DOMAIN data

\* the flattened view of the second Metadata
OtherIter == Metadata_iter(other.data, notes, other.items, other.cached, other.chain)
OtherGet(key) == Metadata_getitem(other.data, notes, other.items, other.cached, other.chain, key)

\* both Metadata show the same keys, each with the same value
SameFlattenedView ==
    /\ NextIter = OtherIter
    /\ \A k \in NextIter : NextGet(k) = OtherGet(k)

\* C10: == is true exactly when the two flattened views have the same keys
\* with equal values, and != is its negation, however the entries lie in the
\* general stores and the annotation stores.
C10_EqualIffSameView ==
    /\ last.op = "eq" => (last.result <=> SameFlattenedView)
    /\ last.op = "ne" => (last.result <=> ~SameFlattenedView)

\* two Metadata were found equal, one holding the key in its general store
\* and the other in a measurement's annotation store
C10_Witness ==
    /\ last.op = "eq"
    /\ last.result
    /\ K_pm_k \in DOMAIN data
    /\ K_pm_k \notin DOMAIN other.data
    /\ "o2" \in {other.chain[i] : i \in DOMAIN other.chain}

----------------------------------------------------------------------------
(* C11: whatever inserts, keyed assignments and deletes were made on the    *)
(* MeasurementSet, and whether they raised or not, every key of the set is  *)
(* a metric-qualified Name, the value under it is a Measurement whose       *)
(* declared metric name is that key, and no two keys name the same metric.  *)
C11_KeysAreDeclaredMetricNames ==
    /\ \A name \in DOMAIN items :
           /\ name.is_metric
           /\ IsMeasurement(items[name])
           /\ name = metric_name(items[name])
    /\ \A n1, n2 \in DOMAIN items : str(n1) = str(n2) => n1 = n2

\* a keyed assignment under another metric's name was refused while the set
\* holds a measurement of each metric
C11_Witness ==
    /\ last.op = "ms_set"
    /\ last.raised
    /\ last.key = M_pn
    /\ Cardinality(DOMAIN items) = 2

----------------------------------------------------------------------------
(* C12: measurement_set[key] = value raises KeyError when the key is not a  *)
(* metric name, TypeError when the key is a metric name and the value is    *)
(* not a Measurement, and KeyError when the value is a Measurement whose    *)
(* declared metric name is not the key; an assignment that raises leaves    *)
(* the contents of the set as they were.                                    *)
C12_KeyedInsertRejections ==
    [][last'.op = "ms_set" =>
          /\ ~Name(last'.key).is_metric =>
                 last'.raised /\ last'.result = "KeyError"
          /\ (Name(last'.key).is_metric /\ ~IsMeasurement(last'.value)) =>
                 last'.raised /\ last'.result = "TypeError"
          /\ (/\ Name(last'.key).is_metric
              /\ IsMeasurement(last'.value)
              /\ Name(last'.key) # metric_name(last'.value)) =>
                 last'.raised /\ last'.result = "KeyError"
          /\ last'.raised => items' = items]_vars

\* the measurement o1 of 'p.m' was refused under the key 'p.n', and the set
\* holds nothing under 'p.n'
C12_Witness ==
    /\ last.op = "ms_set"
    /\ last.key = M_pn
    /\ last.value = "o1"
    /\ last.raised
    /\ last.result = "KeyError"
    /\ Name(M_pn) \notin DOMAIN items

----------------------------------------------------------------------------
(* The layers of the view the next read goes through, and the layers that   *)
(* hold key                                                                 *)
NextMaps == Refreshed(data, notes, items, cached, chain)

Holders(key) == {i \in DOMAIN NextMaps : key \in DOMAIN NextMaps[i]}

(* C13 as stated: when a key is in two layers of the view, a read of the    *)
(* key returns the value of the layer added last among them.                *)
C13_LaterLayerShadows ==
    \A key \in Keys :
        Cardinality(Holders(key)) >= 2 =>
            LET latest == CHOOSE i \in Holders(key) : \A j \in Holders(key) : j <= i
            IN NextGet(key) = [raised |-> FALSE, value |-> NextMaps[latest][key]]

(* C13, amended: when a key is in the general store and in the annotation   *)
(* store of a measurement that is a layer of the view, a read of the key    *)
(* returns the value of the general store.                                  *)
C13_GeneralStoreShadows ==
    \A key \in Keys :
        (key \in DOMAIN data /\ Cardinality(Holders(key)) >= 2) =>
            NextGet(key) = [raised |-> FALSE, value |-> data[key]]

\* a get returned the general store's value for a key that a measurement of
\* the chain annotates with another value
C13_Witness ==
    /\ last.op = "get"
    /\ ~last.raised
    /\ last.key \in DOMAIN data
    /\ last.result = data[last.key]
    /\ \E i \in DOMAIN chain :
           /\ chain[i] # DataRef
           /\ last.key \in DOMAIN notes[chain[i]]
           /\ notes[chain[i]][last.key] # data[last.key]

----------------------------------------------------------------------------
(* C14: a meta[key] = value that does not raise writes the value under the  *)
(* key into exactly one store, the general store or the notes of one        *)
(* Measurement of the bound set, and leaves every other store and the       *)
(* MeasurementSet as they were.                                             *)
C14_SetChangesOneLayer ==
    [][(last'.op = "set" /\ ~last'.raised) =>
          /\ items' = items
          /\ \/ /\ data' = DictSet(data, last'.key, last'.value)
                /\ notes' = notes
             \/ /\ data' = data
                /\ \E o \in Members :
                       notes' = [notes EXCEPT ![o] = DictSet(@, last'.key, last'.value)]]_vars

\* a set was routed to the notes of one of two measurements in the set
C14_Witness ==
    /\ last.op = "set"
    /\ ~last.raised
    /\ Cardinality(Members) = 2
    /\ last.key \notin DOMAIN data
    /\ \E o \in Members :
           /\ last.key \in DOMAIN notes[o]
           /\ notes[o][last.key] = last.value

----------------------------------------------------------------------------
(* C15: in a run of main with --test, whatever the other options and the    *)
(* environment, job.dispatch is not called.                                 *)
C15_TestNeverDispatches ==
    (run.pc # "idle" /\ run.config.test) => run.dispatched = 0

\* a run with --test and with both credentials came to its end without an
\* upload
C15_Witness ==
    /\ run.pc = "done"
    /\ run.config.test
    /\ run.config.api_user
    /\ run.config.api_password
    /\ run.dispatched = 0

(* C16: a run of main with --test that comes to its end has printed the Job *)
(* JSON to standard output, with or without --show.                         *)
C16_TestPrintsJson ==
    (run.pc = "done" /\ run.config.test) => run.printed >= 1

----------------------------------------------------------------------------
\* the metric names of the bound MeasurementSet, as strings
CurrentNames == {str(name) : name \in DOMAIN items}

(* C17: every read (get, contains, len, iteration over keys or items, json) *)
(* rebuilds the chain from the general store and the measurements of the    *)
(* set when the cached metric names differ from the current ones, and       *)
(* leaves the chain as it is when they are equal; after the read the cached *)
(* names are the current names.                                             *)
C17_ReadRefreshesOnNameChange ==
    [][last'.op \in ReadOps =>
          /\ cached' = CurrentNames
          /\ cached # CurrentNames => chain' = <<DataRef>> \o ms_values(items)
          /\ cached = CurrentNames => chain' = chain]_vars

\* a read found only 'p.n' in the set, which no set starts with, and the
\* chain holds its measurement
C17_Witness ==
    /\ last.op \in ReadOps
    /\ CurrentNames = {M_pn}
    /\ cached = {M_pn}
    /\ chain = <<DataRef, "o3">>

----------------------------------------------------------------------------
(* C18: meta[key] = value and del meta[key], raising or not, leave the      *)
(* cached metric names and the chain as they were; cached names that a      *)
(* change of the MeasurementSet made stale stay stale through them.         *)
C18_WritesNeverRefresh ==
    [][last'.op \in {"set", "del"} => UNCHANGED <<cached, chain>>]_vars

\* after a set or a delete the cached names are still not those of the
\* MeasurementSet
C18_Witness ==
    /\ last.op \in {"set", "del"}
    /\ ~last.raised
    /\ cached # CurrentNames

----------------------------------------------------------------------------
(* C19: right after a read, the layers of the chain are the general store,  *)
(* first, and the notes of just the Measurement objects that are in the     *)
(* bound MeasurementSet, also when a measurement was replaced by another    *)
(* one of the same metric name.                                             *)
C19_LayersAreCurrentMeasurements ==
    last.op \in ReadOps =>
        /\ chain[1] = DataRef
        /\ {chain[i] : i \in 2..Len(chain)} = Members

----------------------------------------------------------------------------
(* C20: after a del meta[key] that did not raise, key in meta is false and  *)
(* meta[key] raises KeyError.                                               *)
C20_DeletedKeyIsGone ==
    (last.op = "del" /\ ~last.raised) =>
        /\ ~NextContains(last.key)
        /\ NextGet(last.key).raised

----------------------------------------------------------------------------
(* C21: in every state, a key for which key in meta is true can be deleted: *)
(* del meta[key] on that state does not raise.                              *)
C21_VisibleKeyCanBeDeleted ==
    \A key \in Keys :
        NextContains(key) => ~Metadata_delitem(data, notes, items, key).raised

----------------------------------------------------------------------------
(* C22: a read of the Metadata object (get, contains, len, iteration over   *)
(* keys or items, ==, !=, json) leaves the general store, the notes of      *)
(* every Measurement and the MeasurementSet as they were, in the object     *)
(* read and in the operand of == and !=; only the cached names and the      *)
(* chain may change.                                                        *)
C22_ReadsChangeOnlyTheCache ==
    [][last'.op \in ReadOps \cup {"eq", "ne"} =>
          /\ UNCHANGED <<data, notes, items>>
          /\ other'.data = other.data
          /\ other'.items = other.items]_vars

\* an == rebuilt the chain for a set that holds 'p.n' only, which no set
\* starts with, while the general store holds an entry
C22_Witness ==
    /\ last.op = "eq"
    /\ CurrentNames = {M_pn}
    /\ cached = {M_pn}
    /\ chain = <<DataRef, "o3">>
    /\ data # EmptyDict

====
